---- MODULE Spec2Model ----
(***************************************************************************)
(* Session/subscription coordination core of the translation server:       *)
(* the Socket.IO participant namespace (join / leave / disconnect), the    *)
(* subscriber ledger (subscriberTracker), the per-service translation      *)
(* language map (serviceLanguageMap), the control namespace's monitor     *)
(* audience and its liveness signals (heartbeat / streamingStarted /       *)
(* streamingStopped over activeServiceIds), as written in                  *)
(* src/src/server.js.                                                      *)
(***************************************************************************)
EXTENDS Integers, Sequences, FiniteSets, TLC

(* ---------------------------------------------------------------------- *)
(* Universe of the model                                                   *)
(* ---------------------------------------------------------------------- *)
\* participant socket slots; a slot that disconnects may be reused by a new
\* connection (a new socket with a fresh socketRooms map)
Sockets == {"A", "B", "C"}
\* the two of them that act in Spec
TwoSockets == {"A", "B"}
\* control-panel sockets
ControlSockets == {"M"}
Services == {"123", "456"}
\* real translation languages
Languages == {"es", "fr"}
\* the two room suffixes the handlers exclude from accounting
ReservedChannels == {"transcript", "heartbeat"}
Channels == Languages \cup ReservedChannels
\* a room `${serviceId}:${language}` is modelled as the pair it is built from;
\* the rooms the model's clients ask for
Rooms == {<<"123", "es">>, <<"123", "fr">>, <<"123", "transcript">>,
          <<"456", "fr">>, <<"456", "heartbeat">>}

\* the rooms each client of the model asks for: "A" any room, the others the
\* two real language rooms they can share with "A"
\* the room `undefined:es` of a payload { language: 'es' } without serviceId
UndefinedRoom == <<"undefined", "es">>
\* the keys the rooms of the adapter and the per-service Maps can take
RoomKeys == Rooms \cup {UndefinedRoom}
ServiceKeys == Services \cup {"undefined"}
RoomsAskedBy(s) == IF s = "A" THEN Rooms ELSE {<<"123", "es">>, <<"456", "fr">>}

\* a ledger count is not raised above MaxCount (guard of Join)
MaxCount == 2
\* the count of registration calls per service is not recorded above MaxCalls
MaxCalls == 2

\* the `status` values a heartbeat carries: the two the handler tests for and
\* one other
HeartbeatStatuses == {"livestreaming", "streaming", "ready"}
\* SERVICE_TIMEOUT, in ticks of the model's clock
ServiceTimeout == 2
\* the clock is not advanced beyond MaxTime (guard of Tick)
MaxTime == 3
\* at most MaxTimers expiry callbacks are pending (guard of StreamingStarted)
MaxTimers == 2
\* at most MaxTranscripts transcriptReady events are received (guard of
\* TranscriptReady)
MaxTranscripts == 2
\* raw WebSocket connection slots
WsSockets == {"w1", "w2", "w3"}

VARIABLES
  connected,              \* participant sockets with a live connection
  socketRooms,            \* per socket: rooms recorded for cleanup
  adapterRooms,           \* participantNamespace.adapter.rooms: room -> socket ids
  subscriberTracker,      \* Map serviceId -> Map language -> count
  serviceLanguageMap,     \* serviceId -> languages being translated
  serviceSubscriptionMap, \* services registered for transcript distribution
  controlRooms,           \* controlNamespace room `service-${id}` -> control sockets
  sent,                   \* the emissions of the last handler, in order
  last,                   \* the last handler that ran and its input
  pendingJoins,           \* history (JoinLeaveSpec): per socket, its joins of
                          \* JoinLeaveRoom not yet resolved by a leave of its own
  registrationCalls,      \* history: per service, the calls of
                          \* registerForServiceTranscripts made so far
  activeServiceIds,       \* keys of the Map activeServiceIds (every value is true)
  serviceStatus,          \* the `status` column of the persisted service rows
  timers,                 \* pending setTimeout callbacks of streamingStarted, in
                          \* the order they were armed
  now,                    \* the clock, in ticks
  lastSignal,             \* history: per service, the last liveness signal handled
  everStreaming,          \* history: services that ever got a streaming signal
  expired,                \* history: the expiry callback that ran last
  transcripts,            \* history: the transcriptReady events received, in order
  jobs,                   \* translations in flight or held back for ordering
  delivered,              \* history: the translated messages published, in order
  wsState,                \* per raw WebSocket slot: serviceId and readyState
  serviceConnections,     \* Map serviceId -> array of raw WebSockets
  activeServices,         \* keys of the Map activeServices
  httpPending             \* start / stop requests suspended at their await

\* the state of the translation pipeline
pipeVars == <<transcripts, jobs, delivered>>

\* the state of the raw WebSocket transport and of the service table
rawVars == <<wsState, serviceConnections, activeServices, httpPending>>

\* the state of the liveness signals
liveVars == <<activeServiceIds, serviceStatus, timers, now, lastSignal,
              everStreaming, expired>>

vars == <<connected, socketRooms, adapterRooms, subscriberTracker,
          serviceLanguageMap, serviceSubscriptionMap, controlRooms, sent, last,
          pendingJoins, registrationCalls, activeServiceIds, serviceStatus,
          timers, now, lastSignal, everStreaming, expired, transcripts, jobs,
          delivered, wsState, serviceConnections, activeServices, httpPending>>

(* ---------------------------------------------------------------------- *)
(* JavaScript Map helpers (a Map is a function on the set of its keys)     *)
(* ---------------------------------------------------------------------- *)
EmptyMap == [k \in {} |-> 0]

MapHas(m, k) == k \in DOMAIN m

MapSet(m, k, v) == [x \in (DOMAIN m) \cup {k} |-> IF x = k THEN v ELSE m[x]]

MapDelete(m, k) == [x \in (DOMAIN m) \ {k} |-> m[x]]

\* `serviceSubscribers.get(language) || 0`
GetOrZero(m, k) == IF MapHas(m, k) THEN m[k] ELSE 0

(* ---------------------------------------------------------------------- *)
(* Wire payloads of join / leave                                           *)
(* ---------------------------------------------------------------------- *)
Undefined == "undefined"

\* the string "serviceId:language", given by its split(':') parts
StringData(parts) ==
  [kind |-> "string", parts |-> parts, serviceId |-> Undefined, language |-> Undefined]

\* the object {serviceId, language}
ObjectData(serviceId, language) ==
  [kind |-> "object", parts |-> << >>, serviceId |-> serviceId, language |-> language]

\* the payloads socket s sends: the string shape of every room it asks for,
\* and the object shape of one of them
JoinInputs(s) ==
  {StringData(<<r[1], r[2]>>) : r \in RoomsAskedBy(s)} \cup {ObjectData("123", "es")}

\* ParseData without the split of a string at ':'
ParseData_noSplit(data) ==
  IF data.kind = "string"
  THEN [serviceId |-> data.parts[1], language |-> "unknown"]
  ELSE [serviceId |-> data.serviceId,
        language  |-> IF data.language \in {Undefined, ""} THEN "unknown" ELSE data.language]

\* "Handle multiple formats": the (serviceId, language) a payload stands for
ParseData(data) ==
  IF data.kind = "string"
  THEN IF Len(data.parts) > 1
       THEN [serviceId |-> data.parts[1], language |-> data.parts[2]]
       ELSE [serviceId |-> data.parts[1], language |-> "unknown"]
  ELSE [serviceId |-> data.serviceId,
        language  |-> IF data.language \in {Undefined, ""} THEN "unknown" ELSE data.language]

\* const room = `${serviceId}:${language}`
RoomOf(serviceId, language) == <<serviceId, language>>

(* ---------------------------------------------------------------------- *)
(* Ledger and registry helpers                                             *)
(* ---------------------------------------------------------------------- *)
\* Array.from(serviceSubscribers.entries()).map(([name, subscribers]) => ...)
\* (the array's order is the Map's insertion order; the model keeps the entries)
Snapshot(serviceSubscribers) ==
  {[name |-> k, subscribers |-> serviceSubscribers[k]] : k \in DOMAIN serviceSubscribers}

\* controlNamespace.to(`service-${serviceId}`).emit('subscribers', { languages })
EmitToMonitors(serviceId, languages, cRooms) ==
  [event |-> "subscribers", to |-> <<"room", serviceId>>,
   recipients |-> cRooms[serviceId], languages |-> languages]

\* socket.emit(event, ...) on a control socket
EmitToSocket(event, c, languages) ==
  [event |-> event, to |-> <<"socket", c>>, recipients |-> {c}, languages |-> languages]

\* translate.js addTranslationLanguageToService
addTranslationLanguageToService(slm, serviceId, language) ==
  [slm EXCEPT ![serviceId] = @ \cup {language}]

\* translate.js removeTranslationLanguageFromService
removeTranslationLanguageFromService(slm, serviceId, language) ==
  [slm EXCEPT ![serviceId] = @ \ {language}]

\* translate.js registerForServiceTranscripts
registerForServiceTranscripts(ssm, serviceId) == ssm \cup {serviceId}

\* participantNamespace.adapter.rooms.get(room)?.size || 0
RoomSize(rooms, room) == Cardinality(rooms[room])

\* the sockets participantNamespace.to(room) reaches: none for a room that no
\* socket ever joined
RoomMembers(rooms, room) == IF room \in DOMAIN rooms THEN rooms[room] ELSE {}

\* the ledger count of (serviceId, language), a missing entry counting as 0
Count(tracker, serviceId, language) ==
  IF MapHas(tracker, serviceId) THEN GetOrZero(tracker[serviceId], language) ELSE 0

\* the history record of a service that got no liveness signal yet
NoSignal == [kind |-> "none", at |-> 0, status |-> ""]

\* a raw WebSocket slot that holds no connection
NoWs == [serviceId |-> "", readyState |-> "NONE"]

\* the history record before any expiry callback ran
NoTimer == [serviceId |-> "", due |-> 0, superseded |-> FALSE, stopped |-> FALSE]

(* ---------------------------------------------------------------------- *)
(* Initial state                                                           *)
(* ---------------------------------------------------------------------- *)
Init ==
  /\ connected = [s \in Sockets |-> FALSE]
  /\ socketRooms = [s \in Sockets |-> {}]
  /\ adapterRooms = [r \in RoomKeys |-> {}]
  /\ subscriberTracker = EmptyMap
  /\ serviceLanguageMap = [v \in ServiceKeys |-> {}]
  /\ serviceSubscriptionMap = {}
  /\ controlRooms = [v \in ServiceKeys |-> {}]
  /\ sent = << >>
  /\ last = [op |-> "init", socket |-> "", serviceId |-> "", language |-> "", rooms |-> {}]
  /\ pendingJoins = [s \in Sockets |-> 0]
  /\ registrationCalls = [v \in ServiceKeys |-> 0]
  /\ activeServiceIds = {}
  /\ serviceStatus = [v \in Services |-> "inactive"]
  /\ timers = << >>
  /\ now = 0
  /\ lastSignal = [v \in Services |-> NoSignal]
  /\ everStreaming = {}
  /\ expired = NoTimer
  /\ transcripts = << >>
  /\ jobs = {}
  /\ delivered = << >>
  /\ wsState = [w \in WsSockets |-> NoWs]
  /\ serviceConnections = EmptyMap
  /\ activeServices = {}
  /\ httpPending = {}

(* ---------------------------------------------------------------------- *)
(* Participant namespace                                                   *)
(* ---------------------------------------------------------------------- *)
\* participantNamespace.on('connection'): a new socket with an empty socketRooms
Connect(s) ==
  /\ ~connected[s]
  /\ connected' = [connected EXCEPT ![s] = TRUE]
  /\ socketRooms' = [socketRooms EXCEPT ![s] = {}]
  /\ sent' = << >>
  /\ last' = [op |-> "connect", socket |-> s, serviceId |-> "", language |-> "", rooms |-> {}]
  /\ UNCHANGED <<adapterRooms, subscriberTracker, serviceLanguageMap,
                 serviceSubscriptionMap, controlRooms>>

\* the ledger after the join handler's increment of (serviceId, language)
JoinIncrement(tracker, serviceId, language) ==
  LET withService == IF MapHas(tracker, serviceId) THEN tracker
                     ELSE MapSet(tracker, serviceId, EmptyMap)
      serviceSubscribers == withService[serviceId]
      currentCount == GetOrZero(serviceSubscribers, language)
  IN  MapSet(withService, serviceId, MapSet(serviceSubscribers, language, currentCount + 1))

\* JoinLanguages without the exclusion of the special rooms
JoinLanguages_noExclusion(slm, serviceId, language) ==
  addTranslationLanguageToService(slm, serviceId, language)

\* JoinLanguages without the call that adds the language
JoinLanguages_noAdd(slm, serviceId, language) == slm

\* the join handler's registry update: "Add language to service translation map
\* (exclude special rooms)"
JoinLanguages(slm, serviceId, language) ==
  IF language # "transcript" /\ language # "heartbeat"
  THEN addTranslationLanguageToService(slm, serviceId, language)
  ELSE slm

\* JoinRegisters without the test of serviceSubscriptionMap
JoinRegisters_everyJoin(ssm, serviceId) == TRUE

\* the join handler's "Register for transcripts if not already registered":
\* whether this join calls registerForServiceTranscripts
JoinRegisters(ssm, serviceId) == serviceId \notin ssm

\* socket.on('join')
Join(s, data) ==
  LET p == ParseData(data)
      serviceId == p.serviceId
      language == p.language
      room == RoomOf(serviceId, language)
  IN
  /\ connected[s]
  /\ language \notin ReservedChannels => Count(subscriberTracker, serviceId, language) < MaxCount
  /\ socketRooms' = [socketRooms EXCEPT ![s] = @ \cup {room}]
  /\ adapterRooms' = [adapterRooms EXCEPT ![room] = @ \cup {s}]
  /\ serviceSubscriptionMap' =
       IF JoinRegisters(serviceSubscriptionMap, serviceId)
       THEN registerForServiceTranscripts(serviceSubscriptionMap, serviceId)
       ELSE serviceSubscriptionMap
  /\ registrationCalls' =
       IF JoinRegisters(serviceSubscriptionMap, serviceId)
       THEN [registrationCalls EXCEPT ![serviceId] = IF @ < MaxCalls THEN @ + 1 ELSE @]
       ELSE registrationCalls
  /\ serviceLanguageMap' = JoinLanguages(serviceLanguageMap, serviceId, language)
  /\ IF language # "transcript" /\ language # "heartbeat"
     THEN /\ subscriberTracker' = JoinIncrement(subscriberTracker, serviceId, language)
          /\ sent' = << EmitToMonitors(serviceId, Snapshot(subscriberTracker'[serviceId]),
                                       controlRooms) >>
     ELSE /\ UNCHANGED subscriberTracker
          /\ sent' = << >>
  /\ last' = [op |-> "join", socket |-> s, serviceId |-> serviceId,
              language |-> language, rooms |-> {room}]
  /\ UNCHANGED <<connected, controlRooms>>

\* the join handler when registerForServiceTranscripts throws: the handler has
\* no try/catch, so socketRooms.set and socket.join have run, the rest of the
\* handler has not, and the error ends in process.on('uncaughtException'),
\* which logs it and lets the process go on
JoinRegistrationThrows(s, data) ==
  LET p == ParseData(data)
      serviceId == p.serviceId
      language == p.language
      room == RoomOf(serviceId, language)
  IN
  /\ connected[s]
  /\ JoinRegisters(serviceSubscriptionMap, serviceId)
  /\ socketRooms' = [socketRooms EXCEPT ![s] = @ \cup {room}]
  /\ adapterRooms' = [adapterRooms EXCEPT ![room] = @ \cup {s}]
  /\ registrationCalls' =
       [registrationCalls EXCEPT ![serviceId] = IF @ < MaxCalls THEN @ + 1 ELSE @]
  /\ sent' = << >>
  /\ last' = [op |-> "joinError", socket |-> s, serviceId |-> serviceId,
              language |-> language, rooms |-> {room}]
  /\ UNCHANGED <<connected, subscriberTracker, serviceLanguageMap, serviceSubscriptionMap,
                 controlRooms>>

\* LeaveDecrement deciding the deactivation by the ledger count instead of the
\* transport's room size
LeaveDecrement_trustsCounter(st, serviceId, language, rooms, cRooms) ==
  IF language # "transcript" /\ language # "heartbeat"
  THEN IF MapHas(st.tracker, serviceId) /\ MapHas(st.tracker[serviceId], language)
       THEN LET count == st.tracker[serviceId][language]
                serviceSubscribers ==
                  IF count <= 1
                  THEN MapDelete(st.tracker[serviceId], language)
                  ELSE MapSet(st.tracker[serviceId], language, count - 1)
            IN  [tracker |-> IF DOMAIN serviceSubscribers = {}
                             THEN MapDelete(st.tracker, serviceId)
                             ELSE MapSet(st.tracker, serviceId, serviceSubscribers),
                 slm     |-> IF count <= 1
                             THEN removeTranslationLanguageFromService(st.slm, serviceId, language)
                             ELSE st.slm,
                 sent    |-> Append(st.sent,
                                    EmitToMonitors(serviceId, Snapshot(serviceSubscribers), cRooms))]
       ELSE st
  ELSE st

\* LeaveDecrement building the snapshot before it updates the count
LeaveDecrement_staleSnapshot(st, serviceId, language, rooms, cRooms) ==
  IF language # "transcript" /\ language # "heartbeat"
  THEN IF MapHas(st.tracker, serviceId) /\ MapHas(st.tracker[serviceId], language)
       THEN LET count == st.tracker[serviceId][language]
                serviceSubscribers ==
                  IF count <= 1
                  THEN MapDelete(st.tracker[serviceId], language)
                  ELSE MapSet(st.tracker[serviceId], language, count - 1)
                subscribersInRoom == RoomSize(rooms, RoomOf(serviceId, language))
            IN  [tracker |-> IF DOMAIN serviceSubscribers = {}
                             THEN MapDelete(st.tracker, serviceId)
                             ELSE MapSet(st.tracker, serviceId, serviceSubscribers),
                 slm     |-> IF subscribersInRoom = 0
                             THEN removeTranslationLanguageFromService(st.slm, serviceId, language)
                             ELSE st.slm,
                 sent    |-> Append(st.sent,
                                    EmitToMonitors(serviceId, Snapshot(st.tracker[serviceId]),
                                                   cRooms))]
       ELSE st
  ELSE st

\* the leave handler's ledger and registry update for one room;
\* st = [tracker, slm, sent], rooms = the adapter's rooms after socket.leave
LeaveDecrement(st, serviceId, language, rooms, cRooms) ==
  IF language # "transcript" /\ language # "heartbeat"
  THEN IF MapHas(st.tracker, serviceId) /\ MapHas(st.tracker[serviceId], language)
       THEN LET count == st.tracker[serviceId][language]
                serviceSubscribers ==
                  IF count <= 1
                  THEN MapDelete(st.tracker[serviceId], language)
                  ELSE MapSet(st.tracker[serviceId], language, count - 1)
                subscribersInRoom == RoomSize(rooms, RoomOf(serviceId, language))
            IN  [tracker |-> IF DOMAIN serviceSubscribers = {}
                             THEN MapDelete(st.tracker, serviceId)
                             ELSE MapSet(st.tracker, serviceId, serviceSubscribers),
                 slm     |-> IF subscribersInRoom = 0
                             THEN removeTranslationLanguageFromService(st.slm, serviceId, language)
                             ELSE st.slm,
                 sent    |-> Append(st.sent,
                                    EmitToMonitors(serviceId, Snapshot(serviceSubscribers), cRooms))]
       ELSE st
  ELSE st

\* Leave without the removal of the room from the socket's socketRooms
Leave_keepsSocketRooms(s, data) ==
  LET p == ParseData(data)
      serviceId == p.serviceId
      language == p.language
      room == RoomOf(serviceId, language)
      rooms == [adapterRooms EXCEPT ![room] = @ \ {s}]
      st == LeaveDecrement([tracker |-> subscriberTracker, slm |-> serviceLanguageMap,
                            sent |-> << >>],
                           serviceId, language, rooms, controlRooms)
  IN
  /\ connected[s]
  /\ adapterRooms' = rooms
  /\ socketRooms' = socketRooms
  /\ subscriberTracker' = st.tracker
  /\ serviceLanguageMap' = st.slm
  /\ sent' = st.sent
  /\ last' = [op |-> "leave", socket |-> s, serviceId |-> serviceId,
              language |-> language, rooms |-> {room}]
  /\ UNCHANGED <<connected, serviceSubscriptionMap, controlRooms>>

\* socket.on('leave')
Leave(s, data) ==
  LET p == ParseData(data)
      serviceId == p.serviceId
      language == p.language
      room == RoomOf(serviceId, language)
      rooms == [adapterRooms EXCEPT ![room] = @ \ {s}]
      st == LeaveDecrement([tracker |-> subscriberTracker, slm |-> serviceLanguageMap,
                            sent |-> << >>],
                           serviceId, language, rooms, controlRooms)
  IN
  /\ connected[s]
  /\ adapterRooms' = rooms
  /\ socketRooms' = [socketRooms EXCEPT ![s] = @ \ {room}]
  /\ subscriberTracker' = st.tracker
  /\ serviceLanguageMap' = st.slm
  /\ sent' = st.sent
  /\ last' = [op |-> "leave", socket |-> s, serviceId |-> serviceId,
              language |-> language, rooms |-> {room}]
  /\ UNCHANGED <<connected, serviceSubscriptionMap, controlRooms>>

\* DisconnectDecrement without the removal of a service whose Map got empty
DisconnectDecrement_keepsEmptyService(st, serviceId, language, rooms, cRooms) ==
  IF language # "transcript" /\ language # "heartbeat"
  THEN IF MapHas(st.tracker, serviceId) /\ MapHas(st.tracker[serviceId], language)
       THEN LET count == st.tracker[serviceId][language]
                serviceSubscribers ==
                  IF count <= 1
                  THEN MapDelete(st.tracker[serviceId], language)
                  ELSE MapSet(st.tracker[serviceId], language, count - 1)
                subscribersInRoom == RoomSize(rooms, RoomOf(serviceId, language))
            IN  [tracker |-> MapSet(st.tracker, serviceId, serviceSubscribers),
                 slm     |-> IF subscribersInRoom = 0
                             THEN removeTranslationLanguageFromService(st.slm, serviceId, language)
                             ELSE st.slm,
                 sent    |-> Append(st.sent,
                                    EmitToMonitors(serviceId, Snapshot(serviceSubscribers), cRooms))]
       ELSE st
  ELSE st

\* the disconnect handler's ledger and registry update for one tracked room
DisconnectDecrement(st, serviceId, language, rooms, cRooms) ==
  IF language # "transcript" /\ language # "heartbeat"
  THEN IF MapHas(st.tracker, serviceId) /\ MapHas(st.tracker[serviceId], language)
       THEN LET count == st.tracker[serviceId][language]
                serviceSubscribers ==
                  IF count <= 1
                  THEN MapDelete(st.tracker[serviceId], language)
                  ELSE MapSet(st.tracker[serviceId], language, count - 1)
                subscribersInRoom == RoomSize(rooms, RoomOf(serviceId, language))
            IN  [tracker |-> IF DOMAIN serviceSubscribers = {}
                             THEN MapDelete(st.tracker, serviceId)
                             ELSE MapSet(st.tracker, serviceId, serviceSubscribers),
                 slm     |-> IF subscribersInRoom = 0
                             THEN removeTranslationLanguageFromService(st.slm, serviceId, language)
                             ELSE st.slm,
                 sent    |-> Append(st.sent,
                                    EmitToMonitors(serviceId, Snapshot(serviceSubscribers), cRooms))]
       ELSE st
  ELSE st

\* the cleanup that looks at the most recently joined room only
DisconnectLoop_lastRoomOnly(order, st, rooms, cRooms) ==
  IF order = << >> THEN st
  ELSE DisconnectDecrement(st, order[Len(order)][1], order[Len(order)][2], rooms, cRooms)

\* for (const [room, { serviceId, language }] of socketRooms.entries()) { ... }
RECURSIVE DisconnectLoop(_, _, _, _)
DisconnectLoop(order, st, rooms, cRooms) ==
  IF order = << >> THEN st
  ELSE DisconnectLoop(Tail(order),
                      DisconnectDecrement(st, Head(order)[1], Head(order)[2], rooms, cRooms),
                      rooms, cRooms)

\* the orders in which a Map holding the keys S can iterate (its insertion orders)
Orders(S) ==
  {f \in [1..Cardinality(S) -> S] : \A i, j \in 1..Cardinality(S) : i # j => f[i] # f[j]}

\* the reasons Socket.IO gives a 'disconnect' event: a client that leaves, and
\* an abrupt failure of the transport
DisconnectReasons == {"client namespace disconnect", "transport error"}

\* socket.on('disconnect'), whatever the reason; Socket.IO has taken the socket
\* out of all its rooms before the handler runs. last.language carries the reason.
Disconnect(s, reason) ==
  /\ connected[s]
  /\ \E order \in Orders(socketRooms[s]) :
       LET rooms == [r \in DOMAIN adapterRooms |-> adapterRooms[r] \ {s}]
           st == DisconnectLoop(order,
                                [tracker |-> subscriberTracker, slm |-> serviceLanguageMap,
                                 sent |-> << >>],
                                rooms, controlRooms)
       IN  /\ adapterRooms' = rooms
           /\ subscriberTracker' = st.tracker
           /\ serviceLanguageMap' = st.slm
           /\ sent' = st.sent
  /\ socketRooms' = [socketRooms EXCEPT ![s] = {}]
  /\ connected' = [connected EXCEPT ![s] = FALSE]
  /\ last' = [op |-> "disconnect", socket |-> s, serviceId |-> "", language |-> reason,
              rooms |-> socketRooms[s]]
  /\ UNCHANGED <<serviceSubscriptionMap, controlRooms>>

(* ---------------------------------------------------------------------- *)
(* Control namespace                                                       *)
(* ---------------------------------------------------------------------- *)
\* socket.on('monitor')
Monitor(c, serviceId) ==
  /\ controlRooms' = [controlRooms EXCEPT ![serviceId] = @ \cup {c}]
  /\ sent' = << EmitToSocket("subscribers", c,
                             IF MapHas(subscriberTracker, serviceId)
                             THEN Snapshot(subscriberTracker[serviceId])
                             ELSE {}),
                EmitToSocket("registered", c, {}) >>
  /\ last' = [op |-> "monitor", socket |-> c, serviceId |-> serviceId, language |-> "",
              rooms |-> {}]
  /\ UNCHANGED <<connected, socketRooms, adapterRooms, subscriberTracker,
                 serviceLanguageMap, serviceSubscriptionMap>>

\* controlNamespace socket.on('disconnect'): Socket.IO takes the socket out of
\* the monitor rooms; the handler itself only logs
ControlDisconnect(c) ==
  /\ \E v \in Services : c \in controlRooms[v]
  /\ controlRooms' = [v \in DOMAIN controlRooms |-> controlRooms[v] \ {c}]
  /\ sent' = << >>
  /\ last' = [op |-> "controlDisconnect", socket |-> c, serviceId |-> "", language |-> "",
              rooms |-> {}]
  /\ UNCHANGED <<connected, socketRooms, adapterRooms, subscriberTracker,
                 serviceLanguageMap, serviceSubscriptionMap>>

(* ---------------------------------------------------------------------- *)
(* Liveness signals of the control namespace                               *)
(* ---------------------------------------------------------------------- *)
\* the variables the liveness handlers leave alone
participantVars == <<connected, socketRooms, adapterRooms, subscriberTracker,
                     serviceLanguageMap, serviceSubscriptionMap, controlRooms,
                     pendingJoins, registrationCalls>>

\* status === 'livestreaming' || status === 'streaming'
IsStreamingStatus(status) == status = "livestreaming" \/ status = "streaming"

\* HeartbeatMark taking a heartbeat without a streaming status as the end of
\* the service's activity
HeartbeatMark_onlyStreaming(active, serviceCode, status) ==
  IF IsStreamingStatus(status) THEN active \cup {serviceCode} ELSE active \ {serviceCode}

\* the heartbeat handler's activeServiceIds.set(serviceCode, true)
HeartbeatMark(active, serviceCode, status) == active \cup {serviceCode}

\* HeartbeatBroadcast without the test of the status
HeartbeatBroadcast_anyStatus(serviceCode, status, rooms) ==
  << [event |-> "livestreaming", to |-> <<"participants", <<serviceCode, "heartbeat">>>>,
      recipients |-> RoomMembers(rooms, <<serviceCode, "heartbeat">>), languages |-> {}] >>

\* the heartbeat handler's "Broadcast livestream status only when actually
\* streaming": participantNamespace.to(heartbeatRoom).emit('livestreaming')
HeartbeatBroadcast(serviceCode, status, rooms) ==
  IF IsStreamingStatus(status)
  THEN LET heartbeatRoom == RoomOf(serviceCode, "heartbeat")
       IN  << [event |-> "livestreaming", to |-> <<"participants", heartbeatRoom>>,
               recipients |-> RoomMembers(rooms, heartbeatRoom), languages |-> {}] >>
  ELSE << >>

\* controlNamespace socket.on('heartbeat')
Heartbeat(c, serviceCode, status) ==
  /\ activeServiceIds' = HeartbeatMark(activeServiceIds, serviceCode, status)
  /\ sent' = HeartbeatBroadcast(serviceCode, status, adapterRooms)
  /\ lastSignal' = [lastSignal EXCEPT ![serviceCode] =
                      [kind |-> "heartbeat", at |-> now, status |-> status]]
  /\ everStreaming' = IF IsStreamingStatus(status) THEN everStreaming \cup {serviceCode}
                      ELSE everStreaming
  /\ last' = [op |-> "heartbeat", socket |-> c, serviceId |-> serviceCode,
              language |-> status, rooms |-> {}]
  /\ UNCHANGED <<participantVars, serviceStatus, timers, now, expired>>

\* StartTimers arming no expiry
StartTimers_noExpiry(pending, serviceId, time) == pending

\* the streamingStarted handler's setTimeout(..., timeout): one more pending
\* callback, due `timeout` from now; the callbacks armed earlier stay pending
\* (history: those of the same service are marked superseded)
StartTimers(pending, serviceId, time) ==
  Append([i \in DOMAIN pending |->
            IF pending[i].serviceId = serviceId
            THEN [pending[i] EXCEPT !.superseded = TRUE] ELSE pending[i]],
         [serviceId |-> serviceId, due |-> time + ServiceTimeout,
          superseded |-> FALSE, stopped |-> FALSE])

\* controlNamespace socket.on('streamingStarted')
StreamingStarted(c, serviceId) ==
  /\ Len(timers) < MaxTimers
  /\ activeServiceIds' = activeServiceIds \cup {serviceId}
  /\ timers' = StartTimers(timers, serviceId, now)
  /\ lastSignal' = [lastSignal EXCEPT ![serviceId] =
                      [kind |-> "streamingStarted", at |-> now, status |-> ""]]
  /\ everStreaming' = everStreaming \cup {serviceId}
  /\ sent' = << >>
  /\ last' = [op |-> "streamingStarted", socket |-> c, serviceId |-> serviceId,
              language |-> "", rooms |-> {}]
  /\ UNCHANGED <<participantVars, serviceStatus, now, expired>>

\* StoppedActive clearing the whole Map
StoppedActive_clearsAll(active, serviceId) == {}

\* StoppedActive leaving the Map as it is
StoppedActive_keeps(active, serviceId) == active

\* the streamingStopped handler's activeServiceIds.delete(serviceId)
StoppedActive(active, serviceId) == active \ {serviceId}

\* controlNamespace socket.on('streamingStopped'): the pending callbacks are
\* not cleared (history: those of the service are marked stopped)
StreamingStopped(c, serviceId) ==
  /\ activeServiceIds' = StoppedActive(activeServiceIds, serviceId)
  /\ timers' = [i \in DOMAIN timers |->
                  IF timers[i].serviceId = serviceId
                  THEN [timers[i] EXCEPT !.stopped = TRUE] ELSE timers[i]]
  /\ lastSignal' = [lastSignal EXCEPT ![serviceId] =
                      [kind |-> "streamingStopped", at |-> now, status |-> ""]]
  /\ sent' = << >>
  /\ last' = [op |-> "streamingStopped", socket |-> c, serviceId |-> serviceId,
              language |-> "", rooms |-> {}]
  /\ UNCHANGED <<participantVars, serviceStatus, now, everStreaming, expired>>

\* the callback of streamingStarted's setTimeout: the timers are armed with the
\* same delay, so the one armed first is due first
TimerFire ==
  /\ timers # << >>
  /\ Head(timers).due <= now
  /\ activeServiceIds' = activeServiceIds \ {Head(timers).serviceId}
  /\ timers' = Tail(timers)
  /\ expired' = Head(timers)
  /\ sent' = << >>
  /\ last' = [op |-> "timeout", socket |-> "", serviceId |-> Head(timers).serviceId,
              language |-> "", rooms |-> {}]
  /\ UNCHANGED <<participantVars, serviceStatus, now, lastSignal, everStreaming>>

\* time passes; a callback that is due runs before the clock moves on
Tick ==
  /\ now < MaxTime
  /\ IF timers = << >> THEN TRUE ELSE Head(timers).due > now
  /\ now' = now + 1
  /\ sent' = << >>
  /\ last' = [op |-> "tick", socket |-> "", serviceId |-> "", language |-> "", rooms |-> {}]
  /\ UNCHANGED <<participantVars, activeServiceIds, serviceStatus, timers, lastSignal,
                 everStreaming, expired>>

\* GET /church/:serviceId/status: `active`
isLive(active, status, serviceId) ==
  LET isActiveInMemory == serviceId \in active
      isActiveInDB == status[serviceId] = "active"
  IN  isActiveInMemory \/ isActiveInDB

\* GET /church/:serviceId/livestreaming: status === 'online'
isStreaming(active, serviceId) ==
  (IF serviceId \in active THEN "online" ELSE "offline") = "online"

(* ---------------------------------------------------------------------- *)
(* Transcript pipeline                                                     *)
(* ---------------------------------------------------------------------- *)
\* the room name `service-${serviceCode}`: it holds no ':', so it is modelled
\* as a triple, which no room `${serviceId}:${language}` of a join equals
ServiceRoomOf(serviceCode) == <<"service-", serviceCode, "">>

\* participantNamespace.to(room).emit(event, payload)
EmitToParticipants(event, room, rooms, payload) ==
  [event |-> event, to |-> <<"participants", room>>,
   recipients |-> RoomMembers(rooms, room), languages |-> {}, payload |-> payload]

\* TranscriptEvent handing the pipeline a fresh, empty language map
TranscriptEvent_freshMap(serviceCode, transcript, slm) ==
  [serviceCode |-> serviceCode, transcript |-> transcript,
   serviceLanguageMap |-> [v \in DOMAIN slm |-> {}]]

\* the argument of transcriptAvailServiceSub.next(...)
TranscriptEvent(serviceCode, transcript, slm) ==
  [serviceCode |-> serviceCode, transcript |-> transcript, serviceLanguageMap |-> slm]

\* translation collaborator: the translation of a transcript into a language
Translate(transcript, language) == <<transcript, language>>

\* translate.js, subscriber of transcriptAvailServiceSub: one translation
\* request per language of the service's map, for a service that was
\* registered; none for another service
TranslationRequests(event, ssm) ==
  IF event.serviceCode \in ssm /\ event.serviceCode \in DOMAIN event.serviceLanguageMap
  THEN {[serviceCode |-> event.serviceCode, language |-> l,
         transcript |-> event.transcript, done |-> FALSE, stale |-> FALSE] :
          l \in event.serviceLanguageMap[event.serviceCode]}
  ELSE {}

\* controlNamespace socket.on('transcriptReady'); transcripts are numbered in
\* the order they are received
TranscriptReady(c, serviceCode) ==
  LET transcript == Len(transcripts) + 1
      event == TranscriptEvent(serviceCode, transcript, serviceLanguageMap)
  IN
  /\ Len(transcripts) < MaxTranscripts
  /\ jobs' = jobs \cup TranslationRequests(event, serviceSubscriptionMap)
  /\ transcripts' = Append(transcripts, [serviceCode |-> serviceCode,
                                         languages |-> serviceLanguageMap[serviceCode]])
  /\ sent' = << EmitToParticipants("newTranscript", ServiceRoomOf(serviceCode),
                                   adapterRooms, transcript),
                [event |-> "transcriptSent", to |-> <<"socket", c>>, recipients |-> {c},
                 languages |-> {}, payload |-> serviceCode] >>
  /\ last' = [op |-> "transcriptReady", socket |-> c, serviceId |-> serviceCode,
              language |-> "", rooms |-> {}]
  /\ UNCHANGED <<participantVars, liveVars, delivered, rawVars>>

\* the jobs in S as a sequence, in the order of their transcripts
RECURSIVE InOrder(_)
InOrder(S) ==
  IF S = {} THEN << >>
  ELSE LET first == CHOOSE x \in S : \A y \in S : x.transcript <= y.transcript
       IN  << first >> \o InOrder(S \ {first})

\* Publishable publishing each result as its translation resolves
Publishable_asResolved(pending, finished) == {finished}

\* translate.js, in-order completion queue of a (service, language): among the
\* jobs `pending` (with `finished` just done), those that are done and have no
\* earlier transcript of their service and language still in translation
Publishable(pending, finished) ==
  {x \in pending :
     /\ x.done
     /\ \A y \in pending :
          y.serviceCode = x.serviceCode /\ y.language = x.language
            /\ y.transcript < x.transcript => y.done}

\* translate.js: a translation request resolves; its result and the results
\* held back behind it are published to the language's room, in order
TranslationCompleted(j) ==
  LET finished == [j EXCEPT !.done = TRUE]
      pending == (jobs \ {j}) \cup {finished}
      out == InOrder(Publishable(pending, finished))
  IN
  /\ j \in jobs /\ ~j.done
  /\ jobs' = pending \ {out[i] : i \in DOMAIN out}
  /\ delivered' = delivered \o
       [i \in DOMAIN out |->
          [serviceCode |-> out[i].serviceCode, language |-> out[i].language,
           transcript |-> out[i].transcript,
           payload |-> Translate(out[i].transcript, out[i].language),
           heldBack |-> out[i] # finished, stale |-> out[i].stale]]
  /\ sent' = [i \in DOMAIN out |->
                EmitToParticipants("translation",
                                   RoomOf(out[i].serviceCode, out[i].language), adapterRooms,
                                   Translate(out[i].transcript, out[i].language))]
  /\ last' = [op |-> "translationCompleted", socket |-> "", serviceId |-> j.serviceCode,
              language |-> j.language, rooms |-> {RoomOf(j.serviceCode, j.language)}]
  /\ UNCHANGED <<participantVars, liveVars, transcripts, rawVars>>

(* ---------------------------------------------------------------------- *)
(* Raw WebSocket transport and the service table                           *)
(* ---------------------------------------------------------------------- *)
\* the variables the raw transport and the start / stop routes leave alone
socketIoVars == <<participantVars, serviceStatus, timers, now, lastSignal,
                  everStreaming, expired, pipeVars>>

\* url.searchParams.get('serviceId') of the connecting clients
WsServiceIds == Services \cup {Undefined}

\* MissingServiceId accepting every client
MissingServiceId_never(serviceId) == FALSE

\* wss.on('connection'): `if (!serviceId)`
MissingServiceId(serviceId) == serviceId = Undefined

\* wss.on('connection'): a client without serviceId is terminated before any
\* handler but 'error' is set; another is pushed on its service's array and
\* sent the confirmation
WsConnect(w, serviceId) ==
  /\ wsState[w].readyState \in {"NONE", "CLOSED"}
  /\ IF MissingServiceId(serviceId)
     THEN /\ wsState' = [wsState EXCEPT ![w] = [serviceId |-> "", readyState |-> "CLOSED"]]
          /\ UNCHANGED serviceConnections
          /\ sent' = << >>
     ELSE /\ wsState' = [wsState EXCEPT ![w] = [serviceId |-> serviceId, readyState |-> "OPEN"]]
          /\ serviceConnections' =
               MapSet(serviceConnections, serviceId,
                      Append(IF MapHas(serviceConnections, serviceId)
                             THEN serviceConnections[serviceId] ELSE << >>, w))
          /\ sent' = << [event |-> "connection", to |-> <<"ws", w>>, recipients |-> {w},
                         languages |-> {}, payload |-> serviceId] >>
  /\ last' = [op |-> "wsConnect", socket |-> w, serviceId |-> serviceId,
              language |-> "", rooms |-> {}]
  /\ UNCHANGED <<socketIoVars, activeServiceIds, activeServices, httpPending>>

\* the peer's close frame arrives: the socket is CLOSING until its connection
\* ends
WsClosing(w) ==
  /\ wsState[w].readyState = "OPEN"
  /\ wsState' = [wsState EXCEPT ![w].readyState = "CLOSING"]
  /\ sent' = << >>
  /\ last' = [op |-> "wsClosing", socket |-> w, serviceId |-> wsState[w].serviceId,
              language |-> "", rooms |-> {}]
  /\ UNCHANGED <<socketIoVars, activeServiceIds, serviceConnections, activeServices,
                 httpPending>>

\* Splice leaving the array as it is
Splice_keeps(connections, w) == connections

\* connections.splice(connections.indexOf(ws), 1)
Splice(connections, w) == SelectSeq(connections, LAMBDA x : x # w)

\* ws.on('close'): the connection ended (after a close handshake or abruptly)
WsClose(w) ==
  LET serviceId == wsState[w].serviceId
  IN
  /\ wsState[w].readyState \in {"OPEN", "CLOSING"}
  /\ wsState' = [wsState EXCEPT ![w].readyState = "CLOSED"]
  /\ serviceConnections' =
       IF MapHas(serviceConnections, serviceId)
       THEN LET connections == Splice(serviceConnections[serviceId], w)
            IN  IF Len(connections) = 0 THEN MapDelete(serviceConnections, serviceId)
                ELSE MapSet(serviceConnections, serviceId, connections)
       ELSE serviceConnections
  /\ sent' = << >>
  /\ last' = [op |-> "wsClose", socket |-> w, serviceId |-> serviceId,
              language |-> "", rooms |-> {}]
  /\ UNCHANGED <<socketIoVars, activeServiceIds, activeServices, httpPending>>

\* BroadcastTargets without the test of readyState
BroadcastTargets_anyState(connections, state) == connections

\* broadcastToService: the sockets of the array with readyState === 1 (OPEN)
BroadcastTargets(connections, state) ==
  SelectSeq(connections, LAMBDA w : state[w].readyState = "OPEN")

\* export function broadcastToService(serviceId, message)
broadcastToService(serviceId, message) ==
  LET targets == IF MapHas(serviceConnections, serviceId)
                 THEN BroadcastTargets(serviceConnections[serviceId], wsState)
                 ELSE << >>
  IN
  /\ sent' = [i \in DOMAIN targets |->
                [event |-> "message", to |-> <<"ws", targets[i]>>, recipients |-> {targets[i]},
                 languages |-> {}, payload |-> message]]
  /\ last' = [op |-> "broadcastToService", socket |-> "", serviceId |-> serviceId,
              language |-> "", rooms |-> {}]
  /\ UNCHANGED <<socketIoVars, activeServiceIds, rawVars>>

\* the HTTP requests that can be in progress at the same time
HttpRequests == {"r1", "r2"}

\* request q is not suspended in a route
Idle(q) == \A p \in httpPending : p.id # q

\* the start route's `if (activeServices.has(serviceId)) return res.status(409)`
StartCheck(active, serviceId) == serviceId \in active

\* POST /api/service/:serviceId/start up to `await updateServiceStatus`: 409
\* for a service in activeServices, else the request waits for the database
StartService(q, serviceId) ==
  /\ Idle(q)
  /\ httpPending' = IF StartCheck(activeServices, serviceId) THEN httpPending
                    ELSE httpPending \cup {[id |-> q, route |-> "start", serviceId |-> serviceId]}
  /\ sent' = << >>
  /\ last' = [op |-> "start", socket |-> q, serviceId |-> serviceId,
              language |-> IF StartCheck(activeServices, serviceId) THEN "409" ELSE "",
              rooms |-> {}]
  /\ UNCHANGED <<socketIoVars, activeServiceIds, wsState, serviceConnections, activeServices>>

\* the rest of the start route once the row is written 'active':
\* initializeTranslationService and the 200 response
StartServiceResumes(q, serviceId) ==
  /\ [id |-> q, route |-> "start", serviceId |-> serviceId] \in httpPending
  /\ httpPending' = httpPending \ {[id |-> q, route |-> "start", serviceId |-> serviceId]}
  /\ serviceStatus' = [serviceStatus EXCEPT ![serviceId] = "active"]
  /\ activeServices' = activeServices \cup {serviceId}
  /\ activeServiceIds' = activeServiceIds \cup {serviceId}
  /\ sent' = << >>
  /\ last' = [op |-> "started", socket |-> q, serviceId |-> serviceId,
              language |-> "200", rooms |-> {}]
  /\ UNCHANGED <<participantVars, timers, now, lastSignal, everStreaming, expired, pipeVars,
                 wsState, serviceConnections>>

\* a route whose updateServiceStatus rejects: the catch block answers 500
RouteFails(q, route, serviceId) ==
  /\ [id |-> q, route |-> route, serviceId |-> serviceId] \in httpPending
  /\ httpPending' = httpPending \ {[id |-> q, route |-> route, serviceId |-> serviceId]}
  /\ sent' = << >>
  /\ last' = [op |-> "failed", socket |-> q, serviceId |-> serviceId,
              language |-> "500", rooms |-> {}]
  /\ UNCHANGED <<socketIoVars, activeServiceIds, wsState, serviceConnections, activeServices>>

\* POST /api/service/:serviceId/stop up to `await updateServiceStatus`: 404
\* for a service not in activeServices, else the request waits for the database
StopService(q, serviceId) ==
  /\ Idle(q)
  /\ httpPending' = IF serviceId \notin activeServices THEN httpPending
                    ELSE httpPending \cup {[id |-> q, route |-> "stop", serviceId |-> serviceId]}
  /\ sent' = << >>
  /\ last' = [op |-> "stop", socket |-> q, serviceId |-> serviceId,
              language |-> IF serviceId \notin activeServices THEN "404" ELSE "", rooms |-> {}]
  /\ UNCHANGED <<socketIoVars, activeServiceIds, wsState, serviceConnections, activeServices>>

\* the sockets cleanupTranslationService calls close() on
CleanupCloses_none(connections, state) == {}

\* connections.forEach(ws => { if (ws.readyState === 1) ws.close() })
CleanupCloses(connections, state) ==
  {w \in WsSockets : /\ \E i \in DOMAIN connections : connections[i] = w
                      /\ state[w].readyState = "OPEN"}

\* cleanupTranslationService: closes the open sockets of the service's array,
\* deletes the array and the service's entries
cleanupTranslationService(serviceId) ==
  /\ wsState' =
       IF MapHas(serviceConnections, serviceId)
       THEN [w \in WsSockets |->
               IF w \in CleanupCloses(serviceConnections[serviceId], wsState)
               THEN [wsState[w] EXCEPT !.readyState = "CLOSING"] ELSE wsState[w]]
       ELSE wsState
  /\ serviceConnections' = MapDelete(serviceConnections, serviceId)
  /\ activeServices' = activeServices \ {serviceId}
  /\ activeServiceIds' = activeServiceIds \ {serviceId}

\* the rest of the stop route once the row is written 'inactive':
\* cleanupTranslationService and the 200 response
StopServiceResumes(q, serviceId) ==
  /\ [id |-> q, route |-> "stop", serviceId |-> serviceId] \in httpPending
  /\ httpPending' = httpPending \ {[id |-> q, route |-> "stop", serviceId |-> serviceId]}
  /\ serviceStatus' = [serviceStatus EXCEPT ![serviceId] = "inactive"]
  /\ cleanupTranslationService(serviceId)
  /\ sent' = << >>
  /\ last' = [op |-> "stopped", socket |-> q, serviceId |-> serviceId,
              language |-> "200", rooms |-> {}]
  /\ UNCHANGED <<participantVars, timers, now, lastSignal, everStreaming, expired, pipeVars>>

(* ---------------------------------------------------------------------- *)
(* Specifications                                                          *)
(* ---------------------------------------------------------------------- *)
\* the handlers of the participant sockets S
ParticipantNext(S) ==
  \/ \E s \in S : Connect(s) /\ UNCHANGED <<pendingJoins, registrationCalls, liveVars, pipeVars, rawVars>>
  \/ \E s \in S : \E data \in JoinInputs(s) :
        Join(s, data) /\ UNCHANGED <<pendingJoins, liveVars, pipeVars, rawVars>>
  \/ \E s \in S : \E data \in JoinInputs(s) :
        Leave(s, data) /\ UNCHANGED <<pendingJoins, registrationCalls, liveVars, pipeVars, rawVars>>
  \/ \E s \in S : \E reason \in DisconnectReasons :
        Disconnect(s, reason) /\ UNCHANGED <<pendingJoins, registrationCalls, liveVars, pipeVars, rawVars>>

\* the participant namespace alone (no monitor attached)
Next == ParticipantNext(TwoSockets)

Spec == Init /\ [][Next]_vars

\* one participant together with the control namespace's monitors
MonitorNext ==
  \/ ParticipantNext({"A"})
  \/ \E c \in ControlSockets, v \in Services :
        Monitor(c, v) /\ UNCHANGED <<pendingJoins, registrationCalls, liveVars, pipeVars, rawVars>>
  \/ \E c \in ControlSockets :
        ControlDisconnect(c) /\ UNCHANGED <<pendingJoins, registrationCalls, liveVars, pipeVars, rawVars>>

MonitorSpec == Init /\ [][MonitorNext]_vars

\* join and leave events on one (serviceId, language) pair, with the history
\* of each socket's unresolved joins
JoinLeaveRoom == <<"123", "es">>

JoinLeaveNext ==
  \/ \E s \in Sockets : Connect(s) /\ UNCHANGED <<pendingJoins, registrationCalls, liveVars, pipeVars, rawVars>>
  \/ \E s \in Sockets :
        /\ pendingJoins[s] < MaxCount
        /\ Join(s, StringData(JoinLeaveRoom))
        /\ pendingJoins' = [pendingJoins EXCEPT ![s] = @ + 1]
        /\ UNCHANGED <<liveVars, pipeVars, rawVars>>
  \/ \E s \in Sockets :
        /\ Leave(s, StringData(JoinLeaveRoom))
        /\ pendingJoins' = [pendingJoins EXCEPT ![s] = IF @ > 0 THEN @ - 1 ELSE 0]
        /\ UNCHANGED <<registrationCalls, liveVars, pipeVars, rawVars>>

JoinLeaveSpec == Init /\ [][JoinLeaveNext]_vars

\* the liveness signals of the control namespace and the clock
LiveNext ==
  \/ \E c \in ControlSockets, v \in Services, status \in HeartbeatStatuses :
        Heartbeat(c, v, status) /\ UNCHANGED <<pipeVars, rawVars>>
  \/ \E c \in ControlSockets, v \in Services :
        StreamingStarted(c, v) /\ UNCHANGED <<pipeVars, rawVars>>
  \/ \E c \in ControlSockets, v \in Services :
        StreamingStopped(c, v) /\ UNCHANGED <<pipeVars, rawVars>>
  \/ TimerFire /\ UNCHANGED <<pipeVars, rawVars>>
  \/ Tick /\ UNCHANGED <<pipeVars, rawVars>>

LiveSpec == Init /\ [][LiveNext]_vars

\* the rooms the participants of OnAirSpec ask for
OnAirInputs(s) ==
  IF s = "A" THEN {StringData(<<"456", "heartbeat">>), StringData(<<"123", "es">>)}
  ELSE {StringData(<<"456", "heartbeat">>), StringData(<<"456", "fr">>)}

\* two participants together with the control namespace's heartbeats
OnAirNext ==
  \/ \E s \in TwoSockets :
        Connect(s) /\ UNCHANGED <<pendingJoins, registrationCalls, liveVars, pipeVars, rawVars>>
  \/ \E s \in TwoSockets : \E data \in OnAirInputs(s) :
        Join(s, data) /\ UNCHANGED <<pendingJoins, liveVars, pipeVars, rawVars>>
  \/ \E s \in TwoSockets : \E data \in OnAirInputs(s) :
        Leave(s, data) /\ UNCHANGED <<pendingJoins, registrationCalls, liveVars, pipeVars, rawVars>>
  \/ \E s \in TwoSockets : \E reason \in DisconnectReasons :
        Disconnect(s, reason) /\ UNCHANGED <<pendingJoins, registrationCalls, liveVars, pipeVars, rawVars>>
  \/ \E c \in ControlSockets, v \in Services, status \in HeartbeatStatuses :
        Heartbeat(c, v, status) /\ UNCHANGED <<pipeVars, rawVars>>

OnAirSpec == Init /\ [][OnAirNext]_vars

\* the rooms the participant of PipelineSpec asks for
PipelineInputs ==
  {StringData(<<"123", "es">>), StringData(<<"123", "fr">>),
   StringData(<<"123", "transcript">>)}

\* one participant, the presenter's transcripts and the translations in flight
PipelineNext ==
  \/ Connect("A") /\ UNCHANGED <<pendingJoins, registrationCalls, liveVars, pipeVars, rawVars>>
  \/ \E data \in PipelineInputs :
        Join("A", data) /\ UNCHANGED <<pendingJoins, liveVars, pipeVars, rawVars>>
  \/ \E c \in ControlSockets, v \in Services : TranscriptReady(c, v)
  \/ \E j \in jobs : TranslationCompleted(j)

PipelineSpec == Init /\ [][PipelineNext]_vars

\* history: the jobs of service v in flight when the live service v goes
\* offline are marked
MarkStale(v) ==
  IF v \in activeServiceIds
  THEN {IF x.serviceCode = v THEN [x EXCEPT !.stale = TRUE] ELSE x : x \in jobs}
  ELSE jobs

\* export function broadcastToSocketIO(serviceId, event, data)
broadcastToSocketIO(serviceId, event) ==
  /\ sent' = << [event |-> event, to |-> <<"room", serviceId>>,
                 recipients |-> controlRooms[serviceId], languages |-> {},
                 payload |-> event],
                EmitToParticipants(event, ServiceRoomOf(serviceId), adapterRooms, event) >>
  /\ last' = [op |-> "broadcastToSocketIO", socket |-> "", serviceId |-> serviceId,
              language |-> "", rooms |-> {}]
  /\ UNCHANGED <<participantVars, liveVars, pipeVars, rawVars>>

\* one participant, the monitors and the broadcasts to both audiences
BroadcastNext ==
  \/ MonitorNext
  \/ \E v \in Services : broadcastToSocketIO(v, "now live")

BroadcastSpec == Init /\ [][BroadcastNext]_vars

\* a participant of 123:es, the presenter's transcripts and liveness signals
\* of service "123", and the translations in flight
CancelNext ==
  \/ Connect("A") /\ UNCHANGED <<pendingJoins, registrationCalls, liveVars, pipeVars, rawVars>>
  \/ Join("A", StringData(<<"123", "es">>))
       /\ UNCHANGED <<pendingJoins, liveVars, pipeVars, rawVars>>
  \/ \E c \in ControlSockets : TranscriptReady(c, "123")
  \/ \E j \in jobs : TranslationCompleted(j)
  \/ \E c \in ControlSockets :
        Heartbeat(c, "123", "streaming") /\ UNCHANGED <<pipeVars, rawVars>>
  \/ \E c \in ControlSockets :
        /\ StreamingStopped(c, "123")
        /\ jobs' = MarkStale("123")
        /\ UNCHANGED <<transcripts, delivered, rawVars>>

CancelSpec == Init /\ [][CancelNext]_vars

\* the payloads of the malformed-event runs: { language: 'es' } without
\* serviceId, and a well-formed "123:es"
FaultInputs == {ObjectData(Undefined, "es"), StringData(<<"123", "es">>)}

\* two participants whose events may lack the serviceId and whose joins may
\* meet a registration that throws
FaultNext ==
  \/ \E s \in TwoSockets : Connect(s) /\ UNCHANGED <<pendingJoins, registrationCalls, liveVars, pipeVars, rawVars>>
  \/ \E s \in TwoSockets : \E data \in FaultInputs :
        Join(s, data) /\ UNCHANGED <<pendingJoins, liveVars, pipeVars, rawVars>>
  \/ \E s \in TwoSockets : \E data \in FaultInputs :
        JoinRegistrationThrows(s, data) /\ UNCHANGED <<pendingJoins, liveVars, pipeVars, rawVars>>
  \/ \E s \in TwoSockets : \E data \in FaultInputs :
        Leave(s, data) /\ UNCHANGED <<pendingJoins, registrationCalls, liveVars, pipeVars, rawVars>>
  \/ \E s \in TwoSockets : \E reason \in DisconnectReasons :
        Disconnect(s, reason) /\ UNCHANGED <<pendingJoins, registrationCalls, liveVars, pipeVars, rawVars>>

FaultSpec == Init /\ [][FaultNext]_vars

\* the rooms the participants of IsolationSpec ask for: one of each service
IsolationInputs == {StringData(<<"123", "es">>), StringData(<<"456", "fr">>)}

\* the raw WebSockets of IsolationSpec
IsolationWs == {"w1"}

\* the events that name one service, for two services side by side: one
\* participant in a room of each, the raw connections of each, heartbeats for
\* "456", and the start (one expiry pending at a time), stop and expiry of "123"
IsolationNext ==
  \/ Connect("A") /\ UNCHANGED <<pendingJoins, registrationCalls, liveVars, pipeVars, rawVars>>
  \/ \E data \in IsolationInputs :
        Join("A", data) /\ UNCHANGED <<pendingJoins, liveVars, pipeVars, rawVars>>
  \/ \E data \in IsolationInputs :
        Leave("A", data) /\ UNCHANGED <<pendingJoins, registrationCalls, liveVars, pipeVars, rawVars>>
  \/ \E reason \in DisconnectReasons :
        Disconnect("A", reason) /\ UNCHANGED <<pendingJoins, registrationCalls, liveVars, pipeVars, rawVars>>
  \/ \E c \in ControlSockets :
        Heartbeat(c, "456", "streaming") /\ UNCHANGED <<pipeVars, rawVars>>
  \/ \E c \in ControlSockets :
        timers = << >> /\ StreamingStarted(c, "123") /\ UNCHANGED <<pipeVars, rawVars>>
  \/ \E c \in ControlSockets :
        StreamingStopped(c, "123") /\ UNCHANGED <<pipeVars, rawVars>>
  \/ TimerFire /\ UNCHANGED <<pipeVars, rawVars>>
  \/ Tick /\ UNCHANGED <<pipeVars, rawVars>>
  \/ \E w \in IsolationWs, v \in Services : WsConnect(w, v)

IsolationSpec == Init /\ [][IsolationNext]_vars

\* the raw WebSocket transport with the start and stop of services
RawNext ==
  \/ \E w \in WsSockets, v \in WsServiceIds : WsConnect(w, v)
  \/ \E w \in WsSockets : WsClosing(w)
  \/ \E w \in WsSockets : WsClose(w)
  \/ \E v \in Services : broadcastToService(v, "message")
  \/ \E v \in Services : StartService("r1", v)
  \/ \E v \in Services : StartServiceResumes("r1", v)
  \/ \E v \in Services : StopService("r1", v)
  \/ \E v \in Services : StopServiceResumes("r1", v)

RawSpec == Init /\ [][RawNext]_vars

\* the raw WebSockets of ServiceSpec
ServiceWs == {"w1", "w2"}

\* the start and stop routes with requests that overlap, the database failing
\* or not, beside raw connections and the heartbeats of the control namespace
ServiceNext ==
  \/ \E q \in HttpRequests, v \in Services : StartService(q, v)
  \/ \E q \in HttpRequests, v \in Services : StartServiceResumes(q, v)
  \/ \E q \in HttpRequests, v \in Services : StopService(q, v)
  \/ \E q \in HttpRequests, v \in Services : StopServiceResumes(q, v)
  \/ \E q \in HttpRequests, v \in Services, route \in {"start", "stop"} : RouteFails(q, route, v)
  \/ \E w \in ServiceWs, v \in Services : WsConnect(w, v)
  \/ \E w \in ServiceWs : WsClose(w)
  \/ \E c \in ControlSockets, v \in Services :
        Heartbeat(c, v, "streaming") /\ UNCHANGED <<pipeVars, rawVars>>

ServiceSpec == Init /\ [][ServiceNext]_vars

(* ---------------------------------------------------------------------- *)
(* Vocabulary of the properties                                            *)
(* ---------------------------------------------------------------------- *)
RealRooms == {r \in Rooms : r[2] \notin ReservedChannels}

ReservedRooms == Rooms \ RealRooms

CountOf(tracker, r) == Count(tracker, r[1], r[2])

HasEntry(tracker, r) == MapHas(tracker, r[1]) /\ MapHas(tracker[r[1]], r[2])

IsActive(slm, r) == r[2] \in slm[r[1]]

Max0(n) == IF n < 0 THEN 0 ELSE n

RECURSIVE SumOver(_, _)
SumOver(f, S) ==
  IF S = {} THEN 0 ELSE LET x == CHOOSE x \in S : TRUE IN f[x] + SumOver(f, S \ {x})

\* the step is the join / the leave / the disconnect cleanup of room r
JoinStepOf(r) == vars' # vars /\ last'.op = "join" /\ last'.rooms = {r}

LeaveStepOf(r) == vars' # vars /\ last'.op = "leave" /\ last'.rooms = {r}

DisconnectStepOf(r) == vars' # vars /\ last'.op = "disconnect" /\ r \in last'.rooms

(* ---------------------------------------------------------------------- *)
(* Properties                                                              *)
(* ---------------------------------------------------------------------- *)

\* C1: when a participant socket disconnects, for whatever reason, every room
\* recorded in its socketRooms is reconciled, not only the last joined one: the
\* ledger count of each real language room, of whichever service, is lowered by
\* one (the entry removed when nothing is left) and the tracking set is empty
\* afterwards.
DisconnectReconcilesEveryRoom ==
  [][\A s \in Sockets :
       (connected[s] /\ ~connected'[s]) =>
          /\ socketRooms'[s] = {}
          /\ \A r \in socketRooms[s] \cap RealRooms :
               /\ CountOf(subscriberTracker', r) = Max0(CountOf(subscriberTracker, r) - 1)
               /\ CountOf(subscriberTracker', r) = 0 => ~HasEntry(subscriberTracker', r)
    ]_vars

\* C1 witness: an abrupt transport failure of a socket that had joined three
\* rooms of two services has been reconciled; both services' ledgers were updated.
DisconnectedFromThreeRooms ==
  /\ last.op = "disconnect"
  /\ last.language = "transport error"
  /\ last.rooms = {<<"123", "es">>, <<"123", "transcript">>, <<"456", "fr">>}
  /\ socketRooms[last.socket] = {}
  /\ Len(sent) = 2
  /\ {sent[1].to[2], sent[2].to[2]} = {"123", "456"}
  /\ subscriberTracker = EmptyMap

\* C3: for every service and real language, the ledger count is >= 0 and equals
\* the number of participant sockets joined to the room in the transport.
LedgerEqualsRoomMembership ==
  \A r \in RealRooms :
     /\ CountOf(subscriberTracker, r) >= 0
     /\ CountOf(subscriberTracker, r) = RoomSize(adapterRooms, r)

\* C2: for every sequence of join and leave events on one (serviceId, language)
\* pair by distinct sockets, the ledger count of the pair (0 when missing) equals
\* the number of joins not yet resolved by a leave, and is never negative.
LedgerEqualsUnresolvedJoins ==
  /\ CountOf(subscriberTracker, JoinLeaveRoom) >= 0
  /\ CountOf(subscriberTracker, JoinLeaveRoom) = SumOver(pendingJoins, Sockets)

\* C4: the scenario A joins, B joins, A disconnects, B leaves (count 1, 2, 1, 0;
\* active until B's leave, which removes the entry and deactivates), and in
\* general the language stays active while a joined socket remains and is
\* deactivated when the last one leaves or disconnects.
ScenarioAndLastLeaverDeactivates ==
  [][\A r \in RealRooms :
       \* first join of an untouched room
       /\ (JoinStepOf(r) /\ adapterRooms[r] = {} /\ CountOf(subscriberTracker, r) = 0)
            => (CountOf(subscriberTracker', r) = 1 /\ IsActive(serviceLanguageMap', r))
       \* a second socket joins
       /\ (JoinStepOf(r) /\ Cardinality(adapterRooms[r]) = 1
             /\ last'.socket \notin adapterRooms[r] /\ CountOf(subscriberTracker, r) = 1)
            => (CountOf(subscriberTracker', r) = 2 /\ IsActive(serviceLanguageMap', r))
       \* one of the two disconnects
       /\ (DisconnectStepOf(r) /\ Cardinality(adapterRooms[r]) = 2
             /\ CountOf(subscriberTracker, r) = 2)
            => (CountOf(subscriberTracker', r) = 1 /\ IsActive(serviceLanguageMap', r))
       \* the other one leaves
       /\ (LeaveStepOf(r) /\ adapterRooms[r] = {last'.socket}
             /\ CountOf(subscriberTracker, r) = 1)
            => /\ CountOf(subscriberTracker', r) = 0
               /\ ~HasEntry(subscriberTracker', r)
               /\ ~IsActive(serviceLanguageMap', r)
       \* in general
       /\ adapterRooms'[r] # {} => IsActive(serviceLanguageMap', r)
       /\ (adapterRooms[r] # {} /\ adapterRooms'[r] = {}) => ~IsActive(serviceLanguageMap', r)
    ]_vars

\* C5 as stated: a join, leave or disconnect on a reserved channel room changes
\* no ledger count and no active language; only the socket's room membership and
\* its socketRooms change.
ReservedChannelChangesOnlyMembership ==
  [][\A r \in ReservedRooms :
       (JoinStepOf(r) \/ LeaveStepOf(r)
          \/ (DisconnectStepOf(r) /\ last'.rooms \subseteq ReservedRooms))
       => /\ UNCHANGED <<subscriberTracker, serviceLanguageMap, serviceSubscriptionMap,
                         controlRooms>>
          /\ \A s \in Sockets \ {last'.socket} : socketRooms'[s] = socketRooms[s]
          /\ \A x \in Rooms : adapterRooms'[x] \ {last'.socket} = adapterRooms[x] \ {last'.socket}
    ]_vars

\* C5 amended: a join, leave or disconnect on a reserved channel room changes no
\* ledger count, no active language and sends no snapshot; only the socket's room
\* membership and socketRooms change and, on a join, the service becomes
\* registered for transcript distribution if it was not.
ReservedChannelFrame ==
  [][\A r \in ReservedRooms :
       (JoinStepOf(r) \/ LeaveStepOf(r)
          \/ (DisconnectStepOf(r) /\ last'.rooms \subseteq ReservedRooms))
       => /\ UNCHANGED <<subscriberTracker, serviceLanguageMap, controlRooms>>
          /\ sent' = << >>
          /\ serviceSubscriptionMap' =
               IF JoinStepOf(r) THEN serviceSubscriptionMap \cup {r[1]}
               ELSE serviceSubscriptionMap
          /\ \A s \in Sockets \ {last'.socket} : socketRooms'[s] = socketRooms[s]
          /\ \A x \in Rooms : adapterRooms'[x] \ {last'.socket} = adapterRooms[x] \ {last'.socket}
          /\ JoinStepOf(r) => (r \in socketRooms'[last'.socket] /\ last'.socket \in adapterRooms'[r])
          /\ LeaveStepOf(r) => (r \notin socketRooms'[last'.socket] /\ last'.socket \notin adapterRooms'[r])
    ]_vars

\* C5 witness: a socket has joined both reserved channels, and the ledger and
\* the active languages are as before any join.
JoinedReservedChannelsOnly ==
  /\ last.op = "join"
  /\ last.language = "heartbeat"
  /\ socketRooms[last.socket] = {<<"123", "transcript">>, <<"456", "heartbeat">>}
  /\ last.socket \in adapterRooms[<<"456", "heartbeat">>]
  /\ subscriberTracker = EmptyMap
  /\ \A v \in Services : serviceLanguageMap[v] = {}

\* C6: a leave or disconnect cleanup of a real language room removes the ledger
\* entry and deactivates the language only when the count has reached 0 and the
\* transport reports the room empty, both together; otherwise the entry is kept
\* (count lowered by 1, floored at 0) and the language is not deactivated.
CleanupRemovesOnlyWhenBothHold ==
  [][\A r \in RealRooms :
       ((LeaveStepOf(r) \/ DisconnectStepOf(r)) /\ HasEntry(subscriberTracker, r))
       => IF CountOf(subscriberTracker, r) - 1 <= 0 /\ adapterRooms'[r] = {}
          THEN ~HasEntry(subscriberTracker', r) /\ ~IsActive(serviceLanguageMap', r)
          ELSE /\ HasEntry(subscriberTracker', r)
               /\ CountOf(subscriberTracker', r) = Max0(CountOf(subscriberTracker, r) - 1)
               /\ IsActive(serviceLanguageMap', r) = IsActive(serviceLanguageMap, r)
    ]_vars

NoActiveLanguageForEmptyRoom ==
  \A r \in RealRooms : adapterRooms[r] = {} => ~IsActive(serviceLanguageMap, r)

\* C9: a join of a real language room that raises the count from 0 to 1 makes
\* the language active in the same step, and the language is active after
\* every later join of the room.
JoinActivatesLanguage ==
  [][\A r \in RealRooms :
       /\ (JoinStepOf(r) /\ CountOf(subscriberTracker, r) = 0
             /\ CountOf(subscriberTracker', r) = 1) => IsActive(serviceLanguageMap', r)
       /\ (JoinStepOf(r) /\ CountOf(subscriberTracker, r) >= 1) => IsActive(serviceLanguageMap', r)
    ]_vars

\* C9 witness: a later join of a room whose language an earlier join activated.
SecondJoinKeepsLanguageActive ==
  LET r == <<"456", "fr">> IN
  /\ last.op = "join" /\ last.rooms = {r}
  /\ CountOf(subscriberTracker, r) = 2
  /\ adapterRooms[r] = {"A", "B"}
  /\ IsActive(serviceLanguageMap, r)

\* the entries the ledger holds for a service
LedgerEntries(tracker, v) ==
  IF MapHas(tracker, v)
  THEN {[name |-> k, subscribers |-> tracker[v][k]] : k \in DOMAIN tracker[v]}
  ELSE {}

\* the positions in a handler's emissions of the snapshots sent to v's monitors
SnapshotsTo(log, v) ==
  {i \in 1..Len(log) : log[i].event = "subscribers" /\ log[i].to = <<"room", v>>}

\* C10: a `subscribers` snapshot is sent to a monitor when it attaches and to the
\* service's monitor audience after every ledger mutation, and the snapshot
\* lists exactly the entries the ledger holds for that service.
SnapshotsFollowLedger ==
  [][/\ (vars' # vars /\ last'.op = "monitor")
          => /\ Len(sent') >= 1
             /\ sent'[1] = [event |-> "subscribers", to |-> <<"socket", last'.socket>>,
                            recipients |-> {last'.socket},
                            languages |-> LedgerEntries(subscriberTracker', last'.serviceId)]
     /\ \A v \in Services :
          LedgerEntries(subscriberTracker', v) # LedgerEntries(subscriberTracker, v)
          => LET at == SnapshotsTo(sent', v) IN
             /\ at # {}
             /\ Cardinality(at) >=
                  Cardinality({l \in Languages :
                     Count(subscriberTracker', v, l) # Count(subscriberTracker, v, l)})
             /\ \A i \in at : sent'[i].recipients = controlRooms[v]
             /\ \A i \in at : (\A j \in at : j <= i)
                   => sent'[i].languages = LedgerEntries(subscriberTracker', v)
    ]_vars

\* C10 witness: a monitor attached to a service has been sent the snapshot of a
\* leave that lowered one of two entries of that service.
MonitorSentSnapshotAfterLeave ==
  /\ last.op = "leave" /\ last.serviceId = "123"
  /\ controlRooms["123"] = {"M"}
  /\ Len(sent) = 1 /\ sent[1].recipients = {"M"}
  /\ Cardinality(sent[1].languages) = 2
  /\ sent[1].languages = LedgerEntries(subscriberTracker, "123")

(* ---------------------------------------------------------------------- *)
(* Liveness signals: vocabulary                                            *)
(* ---------------------------------------------------------------------- *)
\* the step is the handling of a heartbeat of service v
HeartbeatStepOf(v) == last'.op = "heartbeat" /\ last'.serviceId = v

\* the step is the handling of streamingStopped of service v
StoppedStepOf(v) == last'.op = "streamingStopped" /\ last'.serviceId = v

\* the step is an expiry callback that turns the live service v off
ExpiryTurnsOff(v) ==
  /\ last'.op = "timeout" /\ last'.serviceId = v
  /\ timers' # timers
  /\ v \in activeServiceIds /\ v \notin activeServiceIds'

\* the last signal of service v was a heartbeat with a streaming status
LastWasStreamingHeartbeat(v) ==
  lastSignal[v].kind = "heartbeat" /\ IsStreamingStatus(lastSignal[v].status)

(* ---------------------------------------------------------------------- *)
(* C11  Once more than the timeout has elapsed since a heartbeat with a    *)
(* streaming status, with no further signal for the service, the service   *)
(* is offline: isLive and isStreaming are false.                           *)
(* ---------------------------------------------------------------------- *)
StreamingHeartbeatExpires ==
  \A v \in Services :
    LastWasStreamingHeartbeat(v) /\ now > lastSignal[v].at + ServiceTimeout
      => /\ ~isLive(activeServiceIds, serviceStatus, v)
         /\ ~isStreaming(activeServiceIds, v)

(* ---------------------------------------------------------------------- *)
(* C12  A service whose last signal is streamingStarted, handled more than *)
(* the timeout ago with no signal since, is offline: the expiry callback   *)
(* armed by that signal has run and removed it.                            *)
(* ---------------------------------------------------------------------- *)
StartedServiceExpires ==
  \A v \in Services :
    lastSignal[v].kind = "streamingStarted" /\ now > lastSignal[v].at + ServiceTimeout
      => /\ ~isLive(activeServiceIds, serviceStatus, v)
         /\ ~isStreaming(activeServiceIds, v)
         /\ \A i \in DOMAIN timers : timers[i].serviceId # v

\* witness of C12: service "123" was started, the timeout passed without a
\* signal, and the expiry callback of that start has just turned it off
StartedThenExpired ==
  /\ lastSignal["123"].kind = "streamingStarted"
  /\ now > lastSignal["123"].at + ServiceTimeout
  /\ expired.serviceId = "123" /\ ~expired.superseded /\ ~expired.stopped
  /\ expired.due = lastSignal["123"].at + ServiceTimeout
  /\ "123" \notin activeServiceIds

\* an expiry of service v is pending in the timers t and not yet due at time
\* `time`: the one of its latest streamingStarted
OwnExpiryAhead(t, v, time) ==
  \E i \in DOMAIN t : t[i].serviceId = v /\ ~t[i].superseded /\ t[i].due > time

(* ---------------------------------------------------------------------- *)
(* C13  After two streamingStarted signals of a service at t1 < t2, the    *)
(* expiry armed at t1 (superseded by the one armed at t2) does not turn    *)
(* the service off while the expiry of the latest signal is still ahead.   *)
(* ---------------------------------------------------------------------- *)
OnlyLatestExpiryDeactivates ==
  [][\A v \in Services :
       ExpiryTurnsOff(v) /\ expired'.superseded /\ ~expired'.stopped
         => ~OwnExpiryAhead(timers', v, now')]_vars

(* ---------------------------------------------------------------------- *)
(* C14  After streamingStarted, streamingStopped and a later               *)
(* streamingStarted of a service, the expiry armed by the first start      *)
(* (pending when the stop was handled) does not turn the second session    *)
(* off while that session's own expiry is still ahead.                     *)
(* ---------------------------------------------------------------------- *)
StopCancelsPendingExpiry ==
  [][\A v \in Services :
       ExpiryTurnsOff(v) /\ expired'.stopped
         => ~OwnExpiryAhead(timers', v, now')]_vars

(* ---------------------------------------------------------------------- *)
(* C15  A live service whose last signal is a heartbeat handled less than  *)
(* the timeout ago is not turned off by an expiry callback.                *)
(* ---------------------------------------------------------------------- *)
HeartbeatRefreshesExpiry ==
  [][\A v \in Services :
       ExpiryTurnsOff(v)
         => ~(lastSignal[v].kind = "heartbeat" /\ now < lastSignal[v].at + ServiceTimeout)]_vars

(* ---------------------------------------------------------------------- *)
(* C16  A service that never got a streaming signal (no streamingStarted,  *)
(* no heartbeat with a streaming status) is not reported streaming by the  *)
(* livestreaming status query.                                             *)
(* ---------------------------------------------------------------------- *)
OnlyStreamingIsReportedOnAir ==
  \A v \in Services : v \notin everStreaming => ~isStreaming(activeServiceIds, v)

(* ---------------------------------------------------------------------- *)
(* C17  Every heartbeat of a service, whatever its status, leaves the      *)
(* service live; it leaves a service reported streaming reported           *)
(* streaming; and for a service already in activeServiceIds it changes     *)
(* neither activeServiceIds nor the pending expiries.                      *)
(* ---------------------------------------------------------------------- *)
HeartbeatLeavesLive ==
  [][\A v \in Services :
       HeartbeatStepOf(v)
         => /\ isLive(activeServiceIds', serviceStatus', v)
            /\ isStreaming(activeServiceIds, v) => isStreaming(activeServiceIds', v)
            /\ v \in activeServiceIds
                 => activeServiceIds' = activeServiceIds /\ timers' = timers]_vars

\* witness of C17: service "123", started by streamingStarted, has just got a
\* heartbeat without a streaming status and is still live and reported streaming
ReadyHeartbeatOnStartedService ==
  /\ last.op = "heartbeat" /\ last.serviceId = "123" /\ last.language = "ready"
  /\ lastSignal["123"].kind = "heartbeat" /\ lastSignal["123"].at > 0
  /\ \E i \in DOMAIN timers : timers[i].serviceId = "123"
  /\ isLive(activeServiceIds, serviceStatus, "123")
  /\ isStreaming(activeServiceIds, "123")

HeartbeatAudience(v) ==
  {s \in Sockets : connected[s] /\ <<v, "heartbeat">> \in socketRooms[s]}

\* the emissions of `livestreaming` in the log
Livestreamings(log) == {i \in DOMAIN log : log[i].event = "livestreaming"}

(* ---------------------------------------------------------------------- *)
(* C19  A heartbeat of service v with a streaming status publishes one     *)
(* `livestreaming` event, which reaches exactly the connected participant  *)
(* sockets joined to v's heartbeat channel; a heartbeat with another       *)
(* status publishes nothing; and no other handler publishes                *)
(* `livestreaming`.                                                        *)
(* ---------------------------------------------------------------------- *)
LivestreamingOnStreamingHeartbeat ==
  [][/\ \A v \in Services :
          HeartbeatStepOf(v)
            => IF IsStreamingStatus(last'.language)
               THEN /\ Len(sent') = 1
                    /\ sent'[1].event = "livestreaming"
                    /\ sent'[1].recipients = HeartbeatAudience(v)
               ELSE sent' = << >>
     /\ Livestreamings(sent') # {}
          => last'.op = "heartbeat" /\ IsStreamingStatus(last'.language)]_vars

\* witness of C19: a streaming heartbeat of service "456" has reached "A",
\* joined to 456:heartbeat, and not "B", joined to 456:fr only, while "A" is
\* also in a room of service "123"
LivestreamingReachedHeartbeatRoomOnly ==
  /\ last.op = "heartbeat" /\ last.serviceId = "456" /\ IsStreamingStatus(last.language)
  /\ Len(sent) = 1 /\ sent[1].event = "livestreaming" /\ sent[1].recipients = {"A"}
  /\ adapterRooms[<<"456", "fr">>] = {"B"}
  /\ "A" \in adapterRooms[<<"123", "es">>]

(* ---------------------------------------------------------------------- *)
(* C20  registerForServiceTranscripts is called at most once per service,  *)
(* and when a join of a service completes it has been called exactly once  *)
(* for that service, whichever socket and channel the join is for.         *)
(* ---------------------------------------------------------------------- *)
RegistrationOncePerService ==
  [][\A v \in Services :
       /\ registrationCalls'[v] <= 1
       /\ last'.op = "join" /\ last'.serviceId = v => registrationCalls'[v] = 1]_vars

\* witness of C20: after joins of service "123" by two sockets, in a reserved
\* channel and in a language room, the registration was called once
RegisteredOnceAfterThreeJoins ==
  /\ last.op = "join" /\ last.serviceId = "123"
  /\ adapterRooms[<<"123", "es">>] = {"A", "B"}
  /\ "A" \in adapterRooms[<<"123", "transcript">>]
  /\ registrationCalls["123"] = 1
  /\ "123" \in serviceSubscriptionMap

(* ---------------------------------------------------------------------- *)
(* C21  For every connected participant socket, its socketRooms (the       *)
(* locally tracked joinedRooms) holds exactly the (service, channel) rooms *)
(* the transport holds the socket in.                                      *)
(* ---------------------------------------------------------------------- *)
JoinedRoomsEqualMembership ==
  \A s \in Sockets :
    connected[s] => socketRooms[s] = {r \in DOMAIN adapterRooms : s \in adapterRooms[r]}

\* witness of C21: "A" has left one of three rooms it joined and is tracked
\* in the two others, a language room and a reserved one
LeftOneOfThreeRooms ==
  /\ last.op = "leave" /\ last.socket = "A" /\ last.rooms = {<<"456", "fr">>}
  /\ connected["A"]
  /\ socketRooms["A"] = {<<"123", "es">>, <<"123", "transcript">>}
  /\ "A" \notin adapterRooms[<<"456", "fr">>]

MessagesFor(v, l, t) ==
  Cardinality({i \in DOMAIN delivered :
                 /\ delivered[i].serviceCode = v /\ delivered[i].language = l
                 /\ delivered[i].transcript = t})
  + Cardinality({x \in jobs : x.serviceCode = v /\ x.language = l /\ x.transcript = t})

(* ---------------------------------------------------------------------- *)
(* C22  For every transcriptReady event received and every channel, the    *)
(* messages published to the service's room of that channel plus the       *)
(* translations still in flight for it are exactly one if the channel is   *)
(* a language active for the service when the event is received and none   *)
(* otherwise; every published message carries the translation of that      *)
(* transcript into that language.                                          *)
(* ---------------------------------------------------------------------- *)
OneMessagePerActiveLanguage ==
  /\ \A t \in DOMAIN transcripts, l \in Channels :
       MessagesFor(transcripts[t].serviceCode, l, t)
         = IF l \in transcripts[t].languages THEN 1 ELSE 0
  /\ \A i \in DOMAIN delivered :
       delivered[i].payload = Translate(delivered[i].transcript, delivered[i].language)

\* witness of C22: a transcript of service "123", received with the active
\* languages {es, fr}, was published once to each of the two rooms and no
\* translation is in flight
PublishedToEsAndFr ==
  /\ jobs = {}
  /\ \E t \in DOMAIN transcripts :
       /\ transcripts[t].serviceCode = "123"
       /\ transcripts[t].languages = {"es", "fr"}
       /\ \E i, k \in DOMAIN delivered :
            /\ delivered[i].transcript = t /\ delivered[i].language = "es"
            /\ delivered[k].transcript = t /\ delivered[k].language = "fr"
       /\ Len(delivered) = 2

(* ---------------------------------------------------------------------- *)
(* C23  The handling of a transcriptReady event of a service emits one     *)
(* `newTranscript` event, which reaches exactly the participant sockets    *)
(* joined to the service's raw-transcript channel.                         *)
(* ---------------------------------------------------------------------- *)
NewTranscriptReachesTranscriptChannel ==
  last.op = "transcriptReady"
    => LET mirrors == {i \in DOMAIN sent : sent[i].event = "newTranscript"}
       IN  /\ Cardinality(mirrors) = 1
           /\ \A i \in mirrors :
                sent[i].recipients = RoomMembers(adapterRooms, <<last.serviceId, "transcript">>)

(* ---------------------------------------------------------------------- *)
(* C24  The translated messages of one service and language are published  *)
(* in the order their transcripts were received.                           *)
(* ---------------------------------------------------------------------- *)
PublishedInReceiptOrder ==
  \A i, k \in DOMAIN delivered :
    /\ i < k
    /\ delivered[i].serviceCode = delivered[k].serviceCode
    /\ delivered[i].language = delivered[k].language
    => delivered[i].transcript < delivered[k].transcript

\* witness of C24: the translation of the second transcript of 123:es resolved
\* first, was held back, and was published after the first
SecondResolvedFirstPublishedSecond ==
  /\ Len(delivered) = 2
  /\ delivered[1].serviceCode = "123" /\ delivered[1].language = "es"
  /\ delivered[1].transcript < delivered[2].transcript
  /\ delivered[2].serviceCode = "123" /\ delivered[2].language = "es"
  /\ delivered[2].heldBack

(* ---------------------------------------------------------------------- *)
(* C25  No translated message is published from a translation that was in  *)
(* flight when its live service went offline.                              *)
(* ---------------------------------------------------------------------- *)
NoPublishAfterOffline ==
  \A i \in DOMAIN delivered : ~delivered[i].stale

\* the participant sockets joined to a room of service v
ParticipantsOf(v) ==
  {s \in Sockets : \E r \in DOMAIN adapterRooms : r[1] = v /\ s \in adapterRooms[r]}

(* ---------------------------------------------------------------------- *)
(* C28  A broadcastToSocketIO of a service reaches every monitor socket    *)
(* attached to the service and every participant socket joined to a room   *)
(* of the service, with the same event, and no other participant socket.   *)
(* ---------------------------------------------------------------------- *)
BroadcastReachesBothAudiences ==
  last.op = "broadcastToSocketIO"
    => /\ Len(sent) = 2
       /\ sent[1].event = sent[2].event
       /\ sent[1].recipients = controlRooms[last.serviceId]
       /\ sent[2].recipients = ParticipantsOf(last.serviceId)

\* the raw WebSockets that connected with serviceId v and are open
OpenConnectionsOf(v) ==
  {w \in WsSockets : wsState[w].serviceId = v /\ wsState[w].readyState = "OPEN"}

(* ---------------------------------------------------------------------- *)
(* C29  A broadcastToService of a service sends the message once to each   *)
(* raw WebSocket that connected with that serviceId and is open, and to no *)
(* other: none of another service, none that is closing or closed.         *)
(* ---------------------------------------------------------------------- *)
BroadcastReachesOpenConnections ==
  last.op = "broadcastToService"
    => /\ {sent[i].to[2] : i \in DOMAIN sent} = OpenConnectionsOf(last.serviceId)
       /\ Len(sent) = Cardinality(OpenConnectionsOf(last.serviceId))

\* witness of C29: a broadcast of service "123" has reached its one open
\* connection, and neither its closing connection nor the open connection of
\* service "456"
BroadcastSkippedClosingAndOtherService ==
  /\ last.op = "broadcastToService" /\ last.serviceId = "123"
  /\ Len(sent) = 1
  /\ \E w \in WsSockets : wsState[w].serviceId = "123" /\ wsState[w].readyState = "CLOSING"
  /\ \E w \in WsSockets : wsState[w].serviceId = "456" /\ wsState[w].readyState = "OPEN"

\* what the participant handlers keep per socket, room, pair and service
ParticipantState == <<socketRooms, adapterRooms, subscriberTracker, serviceLanguageMap>>

(* ---------------------------------------------------------------------- *)
(* C26  A join or leave whose payload has no serviceId changes nothing:    *)
(* the socket's joinedRooms, the room membership, the ledger and the       *)
(* active language sets are after the event what they were before it.      *)
(* ---------------------------------------------------------------------- *)
MalformedEventChangesNothing ==
  [][(last'.op \in {"join", "leave"} /\ last'.serviceId = Undefined)
       => ParticipantState' = ParticipantState]_vars

(* ---------------------------------------------------------------------- *)
(* C27  A join whose handler raises an error is dropped as a whole: the    *)
(* ledger, the joinedRooms, the room membership and the language sets are  *)
(* after it what they were before it.                                      *)
(* ---------------------------------------------------------------------- *)
FailedJoinChangesNothing ==
  [][last'.op = "joinError" => ParticipantState' = ParticipantState]_vars

(* ---------------------------------------------------------------------- *)
(* C31  A leave of a real language room by a socket that is not a member   *)
(* of the room changes neither the ledger nor any active language set.     *)
(* ---------------------------------------------------------------------- *)
StrayLeaveChangesNothing ==
  [][\A r \in RealRooms :
       (LeaveStepOf(r) /\ last'.socket \notin adapterRooms[r])
         => /\ subscriberTracker' = subscriberTracker
            /\ serviceLanguageMap' = serviceLanguageMap]_vars

(* ---------------------------------------------------------------------- *)
(* C32  Once every participant socket has disconnected the ledger holds    *)
(* no entry and no service has an active translation language.             *)
(* ---------------------------------------------------------------------- *)
AllDisconnectedLeavesNothing ==
  (\A s \in Sockets : ~connected[s])
    => /\ subscriberTracker = EmptyMap
       /\ \A v \in Services : serviceLanguageMap[v] = {}

(* ---------------------------------------------------------------------- *)
(* C33  The ledger holds no degenerate entry: every count is at least 1    *)
(* and every service present in the ledger has at least one language.      *)
(* ---------------------------------------------------------------------- *)
LedgerHasNoDegenerateEntry ==
  \A v \in DOMAIN subscriberTracker :
    /\ DOMAIN subscriberTracker[v] # {}
    /\ \A l \in DOMAIN subscriberTracker[v] : subscriberTracker[v][l] >= 1

\* witness of C33: a disconnect removed the last language entry of service
\* "456", and with it the service, while service "123" keeps an entry
DisconnectRemovedEmptiedService ==
  /\ last.op = "disconnect"
  /\ <<"456", "fr">> \in last.rooms
  /\ ~MapHas(subscriberTracker, "456")
  /\ MapHas(subscriberTracker, "123")

\* the participant state after socket s joins room r and then leaves it, each
\* handler run as a whole
AfterJoinThenLeave(s, r) ==
  LET joinedRooms == [adapterRooms EXCEPT ![r] = @ \cup {s}]
      joinedTracker == JoinIncrement(subscriberTracker, r[1], r[2])
      joinedSlm == JoinLanguages(serviceLanguageMap, r[1], r[2])
      rooms == [joinedRooms EXCEPT ![r] = @ \ {s}]
      st == LeaveDecrement([tracker |-> joinedTracker, slm |-> joinedSlm, sent |-> << >>],
                           r[1], r[2], rooms, controlRooms)
  IN  <<[socketRooms EXCEPT ![s] = (@ \cup {r}) \ {r}], rooms, st.tracker, st.slm>>

(* ---------------------------------------------------------------------- *)
(* C34  From any reachable state, a connected socket that is not in a real *)
(* language room and joins it and then leaves it restores the joinedRooms, *)
(* the room membership, the ledger and the active language sets.           *)
(* ---------------------------------------------------------------------- *)
JoinThenLeaveRestores ==
  \A s \in TwoSockets : \A r \in RealRooms :
    (connected[s] /\ s \notin adapterRooms[r])
      => AfterJoinThenLeave(s, r) = ParticipantState

\* what the server holds for service v: its ledger entries, its active
\* languages, its liveness with the expiries pending for it, and its raw
\* connection list
ServiceView(v) ==
  <<IF MapHas(subscriberTracker, v) THEN subscriberTracker[v] ELSE EmptyMap,
    serviceLanguageMap[v],
    v \in activeServiceIds,
    SelectSeq(timers, LAMBDA t : t.serviceId = v),
    IF MapHas(serviceConnections, v) THEN serviceConnections[v] ELSE << >>>>

\* the events that name one service
ServiceEvents == {"join", "leave", "heartbeat", "streamingStarted", "streamingStopped",
                  "timeout"}

(* ---------------------------------------------------------------------- *)
(* C35  A join, leave, heartbeat, streamingStarted, streamingStopped or    *)
(* expiry of service S changes nothing that is held for another service T  *)
(* (ledger, active languages, liveness, raw connection list), and a        *)
(* disconnect changes only services that have a room in the socket's       *)
(* joinedRooms.                                                            *)
(* ---------------------------------------------------------------------- *)
EventsIsolatedPerService ==
  [][\A T \in Services :
       /\ (last'.op \in ServiceEvents /\ last'.serviceId # T)
            => ServiceView(T)' = ServiceView(T)
       /\ (last'.op = "disconnect" /\ \A r \in last'.rooms : r[1] # T)
            => ServiceView(T)' = ServiceView(T)]_vars

\* witness of C35: the expiry of service "123" ran while service "456" was
\* live and had a ledger entry, an active language and a raw connection
ExpiryBesideLiveService ==
  /\ last.op = "timeout" /\ last.serviceId = "123"
  /\ "456" \in activeServiceIds
  /\ MapHas(subscriberTracker, "456")
  /\ "fr" \in serviceLanguageMap["456"]
  /\ MapHas(serviceConnections, "456")

\* what the start and stop routes and the raw transport keep
ServiceTables == <<activeServices, activeServiceIds, serviceStatus, httpPending,
                   serviceConnections, wsState>>

(* ---------------------------------------------------------------------- *)
(* C36  A start of a service that is active is refused with 409 and        *)
(* changes nothing, and a start succeeds (initializes the service) only    *)
(* for a service that is not active: of two overlapping starts of the same *)
(* service at most one succeeds.                                           *)
(* ---------------------------------------------------------------------- *)
StartOfActiveServiceRefused ==
  [][/\ (last'.op = "start" /\ last'.serviceId \in activeServices)
          => (last'.language = "409" /\ ServiceTables' = ServiceTables)
     /\ last'.op = "started" => last'.serviceId \notin activeServices]_vars

\* the open sockets of the connection list of service v
OpenInList(v) ==
  IF MapHas(serviceConnections, v)
  THEN {w \in WsSockets : /\ \E i \in DOMAIN serviceConnections[v] : serviceConnections[v][i] = w
                           /\ wsState[w].readyState = "OPEN"}
  ELSE {}

(* ---------------------------------------------------------------------- *)
(* C37  A successful stop leaves the service out of activeServices and of  *)
(* activeServiceIds, removes its connection list and asks each of its open *)
(* connections to close; the service gets back into either table only by a *)
(* start, a heartbeat or a streamingStarted of that service; a stop of a   *)
(* service that is not active is refused with 404 and changes nothing.     *)
(* ---------------------------------------------------------------------- *)
StopCleansService ==
  [][/\ last'.op = "stopped"
          => /\ last'.serviceId \notin activeServices'
             /\ last'.serviceId \notin activeServiceIds'
             /\ ~MapHas(serviceConnections', last'.serviceId)
             /\ \A w \in OpenInList(last'.serviceId) : wsState'[w].readyState = "CLOSING"
     /\ \A v \in Services :
          /\ (v \notin activeServiceIds /\ v \in activeServiceIds')
               => (last'.serviceId = v
                   /\ last'.op \in {"started", "heartbeat", "streamingStarted"})
          /\ (v \notin activeServices /\ v \in activeServices')
               => (last'.serviceId = v /\ last'.op = "started")
     /\ (last'.op = "stop" /\ last'.serviceId \notin activeServices)
          => (last'.language = "404" /\ ServiceTables' = ServiceTables)]_vars

\* witness of C37: service "123" was stopped while one of its connections
\* was open, which is now closing, and service "456" is still active with
\* its connection open
StoppedServiceWithOpenConnection ==
  /\ last.op = "stopped" /\ last.serviceId = "123"
  /\ \E w \in WsSockets : wsState[w].serviceId = "123" /\ wsState[w].readyState = "CLOSING"
  /\ "456" \in activeServices
  /\ OpenInList("456") # {}

\* the connection table holds no empty list, and each connection of the list
\* of a service connected with that serviceId and has had no close event
TableWellFormed ==
  \A v \in DOMAIN serviceConnections :
    /\ Len(serviceConnections[v]) >= 1
    /\ \A i \in DOMAIN serviceConnections[v] :
         /\ wsState[serviceConnections[v][i]].serviceId = v
         /\ wsState[serviceConnections[v][i]].readyState \in {"OPEN", "CLOSING"}
         /\ \A j \in DOMAIN serviceConnections[v] :
              serviceConnections[v][i] = serviceConnections[v][j] => i = j

\* socket w is in the connection list of service v
Listed(w, v) ==
  /\ MapHas(serviceConnections, v)
  /\ \E i \in DOMAIN serviceConnections[v] : serviceConnections[v][i] = w

(* ---------------------------------------------------------------------- *)
(* C38  Under every interleaving of connects, closes and cleanups the      *)
(* connection table maps no service to an empty list and holds no          *)
(* connection whose close event was handled; the close of a connection     *)
(* that a cleanup took out of the table changes nothing in the table.      *)
(* ---------------------------------------------------------------------- *)
ConnectionTableWellFormed ==
  [][/\ TableWellFormed'
     /\ (last'.op = "wsClose" /\ ~Listed(last'.socket, last'.serviceId))
          => serviceConnections' = serviceConnections]_vars

\* witness of C38: two connections of service "123" were asked to close by a
\* cleanup; the close of one arrived after a new connection opened a new list
ClosedAfterCleanupBesideNewList ==
  /\ last.op = "wsClose" /\ last.serviceId = "123"
  /\ \E w \in WsSockets : /\ wsState[w].serviceId = "123"
                          /\ wsState[w].readyState = "CLOSING"
                          /\ ~Listed(w, "123")
  /\ \E w \in WsSockets : wsState[w].readyState = "OPEN" /\ Listed(w, "123")

(* ---------------------------------------------------------------------- *)
(* C39  A raw connection that gives no serviceId is terminated and is not  *)
(* added to a connection list: the table is after the connect what it was  *)
(* before it, and no broadcast is sent to such a connection.               *)
(* ---------------------------------------------------------------------- *)
ConnectionWithoutServiceIdDropped ==
  [][/\ (last'.op = "wsConnect" /\ last'.serviceId = Undefined)
          => /\ serviceConnections' = serviceConnections
             /\ wsState'[last'.socket].readyState = "CLOSED"
             /\ sent' = << >>
     /\ last'.op = "broadcastToService"
          => \A i \in DOMAIN sent' : wsState'[sent'[i].to[2]].serviceId = last'.serviceId]_vars

\* witness of C39: a connection without serviceId was terminated while each
\* service had an open connection in its list
TerminatedBesideOpenConnections ==
  /\ last.op = "wsConnect" /\ last.serviceId = Undefined
  /\ wsState[last.socket] = [serviceId |-> "", readyState |-> "CLOSED"]
  /\ OpenInList("123") # {}
  /\ OpenInList("456") # {}

====
